---- MODULE Spec2Model ----
(***************************************************************************)
(* Plan execution core of the agent: Executor.execute_plan, a generator    *)
(* that drives Executor.execute_step over the steps of a plan and streams  *)
(* text fragments to its caller (src/build2.0/agent/utils/executor.py).    *)
(*                                                                         *)
(* One behaviour is one call of execute_plan(plan_json,                    *)
(* conversation_history) on an Executor whose model client is or is not    *)
(* available.  Tools and the model stream are external collaborators:      *)
(* what they return or raise is chosen nondeterministically.               *)
(***************************************************************************)
EXTENDS Integers, Sequences, FiniteSets, TLC

\* ------------------------------------------------------------------ bounds
MaxSteps == 3     \* longest plan list
MaxFrags == 2     \* most chunks one model stream produces
MaxHist  == 1     \* longest conversation history passed in

\* ------------------------------------------------------------ input space
\* Executor._initialize_tools: the two tools that are not commented out.
Registry == {"web_search", "news_search"}

\* Tool names a plan step may carry: the direct-response sentinel, the
\* registered tools and one name that is not registered.
PlanTools == Registry \cup {"llm_response_generation", "nonexistent_tool"}

\* Shape of a step's "arguments": the key is absent, a mapping without
\* prompt_to_llm, a mapping with prompt_to_llm, or a non-mapping (a string).
ArgKinds == {"absent", "dict", "dict_prompt", "str"}

\* A tool step hands its arguments to the tool unread (line 111), so the
\* shapes are varied on the steps whose arguments execute_step reads itself.
Steps ==
    [tool : {"llm_response_generation"}, arguments : ArgKinds]
        \cup [tool : PlanTools \ {"llm_response_generation"}, arguments : {"dict"}]

\* The two prompt_to_llm texts that the planner itself writes into a plan:
\* planner.py line 59 (no planner model) and line 187 (planning failed).
PlannerPrompts == {"unavailable_prompt", "fallback_prompt"}

RECURSIVE SeqsUpTo(_, _)
SeqsUpTo(S, n) ==
    IF n = 0 THEN {<<>>}
    ELSE LET shorter == SeqsUpTo(S, n - 1)
         IN  shorter \cup {Append(s, x) : s \in {t \in shorter : Len(t) = n - 1}, x \in S}

\* The advisory "step" ordinal of the k-th of n steps: counted up from 1, as
\* in the planner's example plan, or counted down.
Orders == {"ascending", "descending"}
Ordinal(order, k, n) == IF order = "ascending" THEN k ELSE n + 1 - k
Numbered(p, order) ==
    [k \in 1..Len(p) |-> [tool |-> p[k].tool, arguments |-> p[k].arguments,
                          step |-> Ordinal(order, k, Len(p))]]

\* plan_json values: None, {}, a mapping without "plan", a mapping whose
\* "plan" is not a list, and a mapping whose "plan" is a list of steps.
Plans ==
    {[shape |-> sh, plan |-> <<>>] : sh \in {"none", "empty", "nokey", "notlist"}}
        \cup {[shape |-> "list", plan |-> Numbered(p, order)] :
                    p \in SeqsUpTo(Steps, MaxSteps), order \in Orders}

\* A conversation history of n turns: user and assistant alternate.  The
\* content of a turn is text, written as the sequence of its pieces.
Turn(k) == [role |-> IF k % 2 = 1 THEN "user" ELSE "assistant",
            content |-> <<[kind |-> "message", k |-> k]>>]
History(n) == [k \in 1..n |-> Turn(k)]
Histories == {History(n) : n \in 0..MaxHist}

\* What selected_tool.run does on one invocation: returns text that decodes
\* to a mapping without / with a truthy "error" field, text that decodes to
\* something that is not a mapping, text that does not decode, or raises.
Outcomes == {"success", "error_field", "non_mapping", "undecodable",
             "raise_ValidationError", "raise_JSONDecodeError", "raise_Exception"}

\* ------------------------------------------------------------------ state
VARIABLES
    llm,                          \* self.llm is not None
    plan_json,                    \* argument of execute_plan
    conversation_history,         \* argument of execute_plan
    pc,                           \* position of the execute_plan generator
    i,                            \* index (1-based) of the next step of the loop
    tool_outputs_for_synthesis,   \* local list of result records
    context,                      \* local string: renderings of the records so far
    final_response_streamed,      \* local flag
    gen,                          \* the _get_llm_synthesis_stream generator in use
    yielded,                      \* fragments handed to the caller so far
    executed,                     \* indices of the steps passed to execute_step
    step_results,                 \* per call of execute_step: its step, what run did,
                                  \* and what execute_step returned or raised
    tool_calls,                   \* indices of the steps whose tool.run was invoked
    model_calls,                  \* arguments of every self.llm.stream call
    exc,                          \* exception that left execute_plan, if any
    run,                          \* which call of execute_plan on this Executor: 1 or 2
    first,                        \* what the first call did, once it has ended
    handler,                      \* who drives execute_plan: a direct call or a chat route
    hpc,                          \* position of the chat route's stream generator
    trailer,                      \* fragments the chat route yields after execute_plan's
    planner_output,               \* content of the planner model's reply for this turn
    call,                         \* one call of execute_step on its own: input and result
    chat_file,                    \* messages of the chat's JSON file (/api/chat)
    sessions                      \* per overlapping /api/chat request: position,
                                  \* its chat_data['messages'], its buffer

vars == <<llm, plan_json, conversation_history, pc, i, tool_outputs_for_synthesis,
          context, final_response_streamed, gen, yielded, executed, step_results,
          tool_calls, model_calls, exc, run, first, handler, hpc, trailer,
          planner_output, call, chat_file, sessions>>

\* -------------------------------------------------------------- fragments
Frag(kind, k) == [kind |-> kind, k |-> k]
LLMUnavailableFragment == Frag("main_model_unavailable", 0)     \* line 186
PlanningIssueFragment  == Frag("planning_issue", 0)             \* line 192
EmptyPlanFragment      == Frag("empty_plan", 0)                 \* line 256
NoInformationFragment  == Frag("no_information", 0)             \* line 258
SynthesisUnavailableFragment == Frag("synthesis_unavailable", 0) \* line 154
StreamErrorFragment    == Frag("stream_error", 0)               \* line 177
ModelFragment(k)       == Frag("model", k)                      \* chunk.content

\* -------------------------------------------------------- result records
NoException == [type |-> "none", at |-> "none"]

ToolOutput(isdict, error, details) ==
    [isdict |-> isdict, error |-> error, details |-> details]

ToolResult(tool_name, status, output) ==
    [tool_name |-> tool_name, status |-> status, output |-> output, is_stream |-> FALSE]

NoPrompt == [kind |-> "none", query |-> <<>>, context |-> <<>>]
NoSummary == [successful |-> <<>>, failed |-> <<>>, fallback |-> FALSE]
NoArgs == [prompt |-> NoPrompt, context_summary |-> NoSummary,
           system_prompt |-> "", chat_history |-> <<>>]
NoGen == [state |-> "none", args |-> NoArgs, sent |-> 0, failed |-> FALSE]

\* What execute_step hands back: a result record, a fragment generator, or
\* an exception that leaves it.
Returned(rec)  == [kind |-> "record", rec |-> rec, args |-> NoArgs, exc |-> "none",
                   invoked |-> FALSE]
Invoked(rec)   == [kind |-> "record", rec |-> rec, args |-> NoArgs, exc |-> "none",
                   invoked |-> TRUE]
Generator(a)   == [kind |-> "generator", rec |-> ToolResult("", "", ToolOutput(FALSE, "", FALSE)),
                   args |-> a, exc |-> "none", invoked |-> FALSE]
Raised(e, inv) == [kind |-> "raise", rec |-> ToolResult("", "", ToolOutput(FALSE, "", FALSE)),
                   args |-> NoArgs, exc |-> e, invoked |-> inv]

\* ----------------------------------------------------------- execute_step
\* The tool branch of execute_step (lines 91-149) for one outcome of run.
RunTool(tool_name, outcome) ==
    CASE outcome = "success" ->
            Invoked(ToolResult(tool_name, "success", ToolOutput(TRUE, "", FALSE)))
      [] outcome = "error_field" ->
            \* WebSearchOutput declares a "details" field, NewsOutput does not
            Invoked(ToolResult(tool_name, "error",
                               ToolOutput(TRUE, "tool_error", tool_name = "web_search")))
      [] outcome = "non_mapping" ->      \* .get on a non-mapping: AttributeError, line 143
            Invoked(ToolResult(tool_name, "error", ToolOutput(TRUE, "unexpected_error", FALSE)))
      [] outcome = "undecodable" ->      \* json.loads raises, line 138
            Invoked(ToolResult(tool_name, "error", ToolOutput(TRUE, "decode_error", FALSE)))
      [] outcome = "raise_ValidationError" ->   \* line 133
            Invoked(ToolResult(tool_name, "error", ToolOutput(TRUE, "validation_error", TRUE)))
      [] outcome = "raise_JSONDecodeError" ->
            \* line 139 reads raw_tool_result_json_str, which run never bound
            Raised("UnboundLocalError", TRUE)
      [] outcome = "raise_Exception" ->         \* line 143
            Invoked(ToolResult(tool_name, "error", ToolOutput(TRUE, "unexpected_error", FALSE)))

ExecuteStep(step_plan, chat_history, ctx, outcome) ==
    LET tool_name == step_plan.tool
        \* step_plan.get("arguments", {})
        arguments == IF step_plan.arguments = "absent" THEN "dict" ELSE step_plan.arguments
    IN  IF tool_name = "llm_response_generation"
        THEN IF arguments = "str"
             THEN Raised("AttributeError", FALSE)          \* arguments.get, line 75
             ELSE IF chat_history = <<>>
             THEN Raised("IndexError", FALSE)              \* chat_history[-1], line 79
             ELSE Generator(
                    [prompt |-> IF arguments = "dict_prompt"
                                THEN [kind |-> "explicit", query |-> <<>>, context |-> <<>>]
                                ELSE IF arguments \in PlannerPrompts
                                THEN [kind |-> arguments, query |-> <<>>, context |-> <<>>]
                                ELSE [kind |-> "default",
                                      query |-> chat_history[Len(chat_history)].content,
                                      context |-> ctx],
                     context_summary |-> NoSummary,
                     system_prompt |-> "Help User",
                     chat_history |-> chat_history])
        ELSE IF tool_name \notin Registry
        THEN Returned(ToolResult(tool_name, "error", ToolOutput(FALSE, "not_found", FALSE)))
        ELSE RunTool(tool_name, outcome)

\* ------------------------------------------------------------------- Init
NoFirst == [ended |-> "none", yielded |-> <<>>, step_results |-> <<>>, gen |-> NoGen]
NoRaw == [form |-> "none", content |-> "none", steps |-> <<>>]

NoReturn == [kind |-> "none", error |-> "absent", length |-> 0]
NoStep == [tool |-> "", arguments |-> "absent", step |-> 0]
NoCall == [state |-> "none", step_plan |-> NoStep, ret |-> NoReturn,
           result |-> Raised("none", FALSE), raw_quoted |-> 0]

\* No call of execute_step on its own and no /api/chat request under way.
NothingAside ==
    /\ call = NoCall
    /\ chat_file = <<>>
    /\ sessions = <<>>

\* A direct call of execute_plan, as in the module's own test plans.
DirectCall ==
    /\ NothingAside
    /\ run = 1
    /\ first = NoFirst
    /\ handler = "direct"
    /\ hpc = "none"
    /\ trailer = <<>>
    /\ planner_output = NoRaw

Init ==
    /\ llm \in BOOLEAN
    /\ plan_json \in Plans
    /\ conversation_history \in Histories
    /\ DirectCall
    /\ pc = "start"
    /\ i = 1
    /\ tool_outputs_for_synthesis = <<>>
    /\ context = <<>>
    /\ final_response_streamed = FALSE
    /\ gen = NoGen
    /\ yielded = <<>>
    /\ executed = <<>>
    /\ step_results = <<>>
    /\ tool_calls = <<>>
    /\ model_calls = <<>>
    /\ exc = NoException

locals == <<i, tool_outputs_for_synthesis, context, final_response_streamed>>
aside == <<call, chat_file, sessions>>
caller == <<run, first, handler, hpc, trailer, planner_output, aside>>
inputs == <<llm, plan_json, conversation_history, caller>>
observed == <<executed, step_results, tool_calls, model_calls>>

\* ------------------------------------------------------------ execute_plan
\* The steps re-sorted on their "step" ordinal.
Plan_SortedByStep ==
    [k \in 1..Len(plan_json.plan) |->
        CHOOSE s \in {plan_json.plan[j] : j \in 1..Len(plan_json.plan)} : s.step = k]

\* Line 195: plan_steps, iterated in list order by line 199.
Plan == plan_json.plan

Finish(fragment) ==
    /\ yielded' = Append(yielded, fragment)
    /\ pc' = "done"

\* Start without the plan-shape guard of line 189.
Start_NoPlanCheck ==
    /\ pc = "start"
    /\ IF ~llm
       THEN Finish(LLMUnavailableFragment)
       ELSE /\ pc' = "loop"
            /\ UNCHANGED yielded
    /\ UNCHANGED <<inputs, locals, gen, observed, exc>>

\* Start with the two guards in the opposite order.
Start_PlanCheckFirst ==
    /\ pc = "start"
    /\ IF plan_json.shape # "list"
       THEN Finish(PlanningIssueFragment)
       ELSE IF ~llm
       THEN Finish(LLMUnavailableFragment)
       ELSE /\ pc' = "loop"
            /\ UNCHANGED yielded
    /\ UNCHANGED <<inputs, locals, gen, observed, exc>>

\* Lines 185-198: the two guards, then the locals of the loop.
Start ==
    /\ pc = "start"
    /\ IF ~llm
       THEN Finish(LLMUnavailableFragment)
       ELSE IF plan_json.shape # "list"
       THEN Finish(PlanningIssueFragment)
       ELSE /\ pc' = "loop"
            /\ UNCHANGED yielded
    /\ UNCHANGED <<inputs, locals, gen, observed, exc>>

\* ToolStep that keeps for the synthesis the results with status=success only.
ToolStep_SuccessesOnly ==
    /\ pc = "loop"
    /\ i <= Len(Plan)
    /\ Plan[i].tool # "llm_response_generation"
    /\ \E outcome \in (IF Plan[i].tool \in Registry THEN Outcomes ELSE {"none"}) :
         LET execution_result == ExecuteStep(Plan[i], conversation_history, context, outcome)
         IN  /\ executed' = Append(executed, i)
             /\ step_results' = Append(step_results, [step |-> i, step_plan |-> Plan[i],
                                                      outcome |-> outcome,
                                                      result |-> execution_result])
             /\ tool_calls' = IF execution_result.invoked THEN Append(tool_calls, i)
                              ELSE tool_calls
             /\ IF execution_result.kind = "raise"
                THEN /\ pc' = "raised"
                     /\ exc' = [type |-> execution_result.exc, at |-> "execute_step"]
                     /\ UNCHANGED locals
                ELSE /\ tool_outputs_for_synthesis' =
                            IF execution_result.rec.status = "success"
                            THEN Append(tool_outputs_for_synthesis, execution_result.rec)
                            ELSE tool_outputs_for_synthesis
                     /\ context' = Append(context, execution_result.rec)
                     /\ i' = i + 1
                     /\ UNCHANGED <<pc, exc, final_response_streamed>>
    /\ UNCHANGED <<inputs, gen, yielded, model_calls>>

\* Lines 199-221, else branch: one iteration of the loop for a tool step.
ToolStep ==
    /\ pc = "loop"
    /\ i <= Len(Plan)
    /\ Plan[i].tool # "llm_response_generation"
    /\ \E outcome \in (IF Plan[i].tool \in Registry THEN Outcomes ELSE {"none"}) :
         LET execution_result == ExecuteStep(Plan[i], conversation_history, context, outcome)
         IN  /\ executed' = Append(executed, i)
             /\ step_results' = Append(step_results, [step |-> i, step_plan |-> Plan[i],
                                                      outcome |-> outcome,
                                                      result |-> execution_result])
             /\ tool_calls' = IF execution_result.invoked THEN Append(tool_calls, i)
                              ELSE tool_calls
             /\ IF execution_result.kind = "raise"
                THEN /\ pc' = "raised"
                     /\ exc' = [type |-> execution_result.exc, at |-> "execute_step"]
                     /\ UNCHANGED locals
                ELSE /\ tool_outputs_for_synthesis' =
                            Append(tool_outputs_for_synthesis, execution_result.rec)
                     /\ context' = Append(context, execution_result.rec)
                     /\ i' = i + 1
                     /\ UNCHANGED <<pc, exc, final_response_streamed>>
    /\ UNCHANGED <<inputs, gen, yielded, model_calls>>

\* Lines 199-205: the iteration that meets an llm_response_generation step,
\* up to the creation of its fragment generator.
ResponseStep ==
    /\ pc = "loop"
    /\ i <= Len(Plan)
    /\ Plan[i].tool = "llm_response_generation"
    /\ LET execution_result == ExecuteStep(Plan[i], conversation_history, context, "success")
       IN  /\ executed' = Append(executed, i)
           /\ step_results' = Append(step_results, [step |-> i, step_plan |-> Plan[i],
                                                    outcome |-> "none",
                                                    result |-> execution_result])
           /\ IF execution_result.kind = "raise"
              THEN /\ pc' = "raised"
                   /\ exc' = [type |-> execution_result.exc, at |-> "execute_step"]
                   /\ UNCHANGED gen
              ELSE /\ pc' = "stream_step"
                   /\ gen' = [state |-> "created", args |-> execution_result.args, sent |-> 0,
                              failed |-> FALSE]
                   /\ UNCHANGED exc
    /\ UNCHANGED <<inputs, locals, yielded, tool_calls, model_calls>>

\* Lines 234-250: the summary that separates successes from failures.
Successful(outs) ==
    LET sel == SelectSeq(outs, LAMBDA out : out.status = "success")
    IN  [k \in 1..Len(sel) |-> [tool_name |-> sel[k].tool_name, output |-> sel[k].output]]

Failed(outs) ==
    LET sel == SelectSeq(outs, LAMBDA out : out.status # "success")
    IN  [k \in 1..Len(sel) |-> [tool_name |-> sel[k].tool_name,
                                error_detail |-> sel[k].output.error,
                                details |-> sel[k].output.details]]

\* Line 240: output_data.get on an output that is a string.
SummaryRaises(outs) ==
    \E k \in 1..Len(outs) : outs[k].status # "success" /\ ~outs[k].output.isdict

ContextSummary(outs) ==
    [successful |-> Successful(outs), failed |-> Failed(outs),
     fallback |-> Successful(outs) = <<>> /\ Failed(outs) = <<>>]

\* AfterLoop with the two elif branches of lines 255-258 in the opposite order.
AfterLoop_ElifSwapped ==
    /\ pc = "loop"
    /\ i > Len(Plan)
    /\ IF ~final_response_streamed /\ tool_outputs_for_synthesis # <<>>
       THEN IF SummaryRaises(tool_outputs_for_synthesis)
            THEN /\ pc' = "raised"
                 /\ exc' = [type |-> "AttributeError", at |-> "execute_plan"]
                 /\ UNCHANGED <<gen, yielded>>
            ELSE /\ pc' = "stream_synth"
                 /\ gen' = [state |-> "created",
                            args |-> [prompt |-> [kind |-> "synthesis", query |-> <<>>,
                                                  context |-> <<>>],
                                      context_summary |->
                                          ContextSummary(tool_outputs_for_synthesis),
                                      system_prompt |-> "",
                                      chat_history |-> <<>>],
                            sent |-> 0, failed |-> FALSE]
                 /\ UNCHANGED <<exc, yielded>>
       ELSE IF tool_outputs_for_synthesis = <<>> /\ ~final_response_streamed
       THEN Finish(NoInformationFragment) /\ UNCHANGED <<gen, exc>>
       ELSE IF Plan = <<>>
       THEN Finish(EmptyPlanFragment) /\ UNCHANGED <<gen, exc>>
       ELSE pc' = "done" /\ UNCHANGED <<gen, exc, yielded>>
    /\ UNCHANGED <<inputs, locals, observed>>

\* Lines 223-258: what follows the loop.
AfterLoop ==
    /\ pc = "loop"
    /\ i > Len(Plan)
    /\ IF ~final_response_streamed /\ tool_outputs_for_synthesis # <<>>
       THEN IF SummaryRaises(tool_outputs_for_synthesis)
            THEN /\ pc' = "raised"
                 /\ exc' = [type |-> "AttributeError", at |-> "execute_plan"]
                 /\ UNCHANGED <<gen, yielded>>
            ELSE /\ pc' = "stream_synth"
                 /\ gen' = [state |-> "created",
                            args |-> [prompt |-> [kind |-> "synthesis", query |-> <<>>,
                                                  context |-> <<>>],
                                      context_summary |->
                                          ContextSummary(tool_outputs_for_synthesis),
                                      system_prompt |-> "",
                                      chat_history |-> <<>>],
                            sent |-> 0, failed |-> FALSE]
                 /\ UNCHANGED <<exc, yielded>>
       ELSE IF Plan = <<>>
       THEN Finish(EmptyPlanFragment) /\ UNCHANGED <<gen, exc>>
       ELSE IF tool_outputs_for_synthesis = <<>> /\ ~final_response_streamed
       THEN Finish(NoInformationFragment) /\ UNCHANGED <<gen, exc>>
       ELSE pc' = "done" /\ UNCHANGED <<gen, exc, yielded>>
    /\ UNCHANGED <<inputs, locals, observed>>

\* ------------------------------------------------ _get_llm_synthesis_stream
Streaming == pc \in {"stream_step", "stream_synth"}

\* Lines 153-171: the first pull runs the generator body up to llm.stream.
CallModel ==
    model_calls' = IF gen.state = "created" THEN Append(model_calls, gen.args)
                   ELSE model_calls

\* StreamChunk that takes the chunk from the model and does not yield it.
StreamChunk_Drops ==
    /\ Streaming
    /\ llm
    /\ gen.state \in {"created", "streaming"}
    /\ gen.sent < MaxFrags
    /\ CallModel
    /\ gen' = [gen EXCEPT !.state = "streaming", !.sent = gen.sent + 1]
    /\ UNCHANGED <<inputs, locals, pc, yielded, executed, step_results, tool_calls, exc>>

\* Lines 171-172 and 205-206 / 253-254: the model produces a chunk, which is
\* yielded by the generator and again by execute_plan.
StreamChunk ==
    /\ Streaming
    /\ llm
    /\ gen.state \in {"created", "streaming"}
    /\ gen.sent < MaxFrags
    /\ CallModel
    /\ gen' = [gen EXCEPT !.state = "streaming", !.sent = gen.sent + 1]
    /\ yielded' = Append(yielded, ModelFragment(gen.sent + 1))
    /\ UNCHANGED <<inputs, locals, pc, executed, step_results, tool_calls, exc>>

\* StreamError without the except clause of line 173: the exception of the
\* model stream leaves the generator and execute_plan.
StreamError_Propagates ==
    /\ Streaming
    /\ llm
    /\ gen.state \in {"created", "streaming"}
    /\ CallModel
    /\ gen' = [gen EXCEPT !.state = "failed", !.failed = TRUE]
    /\ pc' = "raised"
    /\ exc' = [type |-> "Exception", at |-> "stream"]
    /\ UNCHANGED <<inputs, locals, yielded, executed, step_results, tool_calls>>

\* Lines 173-177: the model stream raises; one error fragment is yielded.
StreamError ==
    /\ Streaming
    /\ llm
    /\ gen.state \in {"created", "streaming"}
    /\ CallModel
    /\ gen' = [gen EXCEPT !.state = "failed", !.failed = TRUE]
    /\ yielded' = Append(yielded, StreamErrorFragment)
    /\ UNCHANGED <<inputs, locals, pc, executed, step_results, tool_calls, exc>>

\* StreamEnd with a break in place of lines 207-210: the flag is not set and
\* the code after the loop runs.
StreamEnd_Break ==
    /\ Streaming
    /\ llm
    /\ gen.state \in {"created", "streaming", "failed"}
    /\ IF gen.state = "failed" THEN UNCHANGED model_calls ELSE CallModel
    /\ gen' = [gen EXCEPT !.state = "finished"]
    /\ IF pc = "stream_step"
       THEN pc' = "loop" /\ i' = Len(Plan) + 1
       ELSE pc' = "done" /\ UNCHANGED i
    /\ UNCHANGED <<inputs, tool_outputs_for_synthesis, context, yielded,
                   final_response_streamed, executed, step_results, tool_calls, exc>>

\* StreamEnd without the return of line 210: the loop goes on to the next step.
StreamEnd_NoReturn ==
    /\ Streaming
    /\ llm
    /\ gen.state \in {"created", "streaming", "failed"}
    /\ IF gen.state = "failed" THEN UNCHANGED model_calls ELSE CallModel
    /\ gen' = [gen EXCEPT !.state = "finished"]
    /\ final_response_streamed' = IF pc = "stream_step" THEN TRUE
                                  ELSE final_response_streamed
    /\ IF pc = "stream_step"
       THEN pc' = "loop" /\ i' = i + 1
       ELSE pc' = "done" /\ UNCHANGED i
    /\ UNCHANGED <<inputs, tool_outputs_for_synthesis, context, yielded,
                   executed, step_results, tool_calls, exc>>

\* The generator is exhausted (the model stream ended, or the error
\* fragment was the last one); execute_plan runs to its end: lines 207-210
\* for a step's stream, the end of the function for the synthesis stream.
StreamEnd ==
    /\ Streaming
    /\ llm
    /\ gen.state \in {"created", "streaming", "failed"}
    /\ IF gen.state = "failed" THEN UNCHANGED model_calls ELSE CallModel
    /\ gen' = [gen EXCEPT !.state = "finished"]
    /\ final_response_streamed' = IF pc = "stream_step" THEN TRUE
                                  ELSE final_response_streamed
    /\ pc' = "done"
    /\ UNCHANGED <<inputs, i, tool_outputs_for_synthesis, context, yielded,
                   executed, step_results, tool_calls, exc>>

Next ==
    \/ Start
    \/ ToolStep
    \/ ResponseStep
    \/ AfterLoop
    \/ StreamChunk
    \/ StreamError
    \/ StreamEnd

Spec == Init /\ [][Next]_vars

\* The consumer of the stream keeps pulling: Flask iterates the generator
\* until it is exhausted, and each pull runs the generator to its next yield.
FairSpec == Spec /\ WF_vars(Next)

\* ------------------------------------------------- execute_step on its own
\* Line 139: raw_tool_result_json_str[:500].
PrefixLimit == 500

\* Lengths of the text a tool returns, about the limit of the quoted prefix.
PayloadLengths == {0, PrefixLimit - 1, PrefixLimit, PrefixLimit + 1, 2 * PrefixLimit}

\* The "error" field of a decoded mapping: no such key, null, "", a message.
ErrorFields == {"absent", "null", "empty", "text"}

Return(kind, error, length) == [kind |-> kind, error |-> error, length |-> length]

\* What selected_tool.run does, in the detail execute_step looks at.
Returns ==
    {Return("mapping", e, 0) : e \in ErrorFields}
        \cup {Return("non_mapping", "absent", 0)}
        \cup {Return("undecodable", "absent", n) : n \in PayloadLengths}
        \cup {Return(k, "absent", 0) :
                    k \in {"raise_ValidationError", "raise_JSONDecodeError", "raise_Exception"}}

\* Truthy that takes every value of the key, null and "" too, for an error.
Truthy_KeyPresent(e) == e # "absent"

\* Line 128: if tool_result_dict.get("error").
Truthy(e) == e = "text"

\* Lines 119-131: which of the Outcomes a return of run is.
OutcomeOf(ret) ==
    IF ret.kind = "mapping"
    THEN IF Truthy(ret.error) THEN "error_field" ELSE "success"
    ELSE ret.kind

Min(a, b) == IF a <= b THEN a ELSE b

\* RawQuoted that puts the whole of the raw text in the message.
RawQuoted_Whole(ret) == IF ret.kind = "undecodable" THEN ret.length ELSE 0

\* Line 139: how many characters of the raw text the decode error message
\* quotes.
RawQuoted(ret) == IF ret.kind = "undecodable" THEN Min(ret.length, PrefixLimit) ELSE 0

\* No call of execute_plan and no chat turn is under way.
ExecutorIdle ==
    /\ plan_json = [shape |-> "none", plan |-> <<>>]
    /\ planner_output = NoRaw
    /\ run = 1
    /\ first = NoFirst
    /\ handler = "none"
    /\ hpc = "none"
    /\ trailer = <<>>
    /\ pc = "idle"
    /\ i = 1
    /\ tool_outputs_for_synthesis = <<>>
    /\ context = <<>>
    /\ final_response_streamed = FALSE
    /\ gen = NoGen
    /\ yielded = <<>>
    /\ executed = <<>>
    /\ step_results = <<>>
    /\ tool_calls = <<>>
    /\ model_calls = <<>>
    /\ exc = NoException

\* execute_step is about to be called with one step, a history and an
\* empty context; what run will do is the tool's choice.
InitStep ==
    /\ ExecutorIdle
    /\ llm \in BOOLEAN
    /\ conversation_history \in Histories
    /\ chat_file = <<>>
    /\ sessions = <<>>
    /\ \E step \in Steps :
         \E ret \in (IF step.tool \in Registry THEN Returns ELSE {NoReturn}) :
            call = [state |-> "pending",
                    step_plan |-> [tool |-> step.tool, arguments |-> step.arguments,
                                   step |-> 1],
                    ret |-> ret,
                    result |-> Raised("none", FALSE),
                    raw_quoted |-> 0]

\* Lines 63-149: one call of execute_step.
ExecuteStepCall ==
    /\ call.state = "pending"
    /\ call' = [call EXCEPT
                    !.state = "returned",
                    !.result = ExecuteStep(call.step_plan, conversation_history, <<>>,
                                           OutcomeOf(call.ret)),
                    !.raw_quoted = RawQuoted(call.ret)]
    /\ UNCHANGED <<llm, plan_json, conversation_history, run, first, handler, hpc,
                   trailer, planner_output, chat_file, sessions, locals, pc, gen,
                   yielded, observed, exc>>

NextStep == ExecuteStepCall

SpecStep == InitStep /\ [][NextStep]_vars

\* ------------------------------------------------------------ the planner
MaxRawSteps == 2

\* The "arguments" value of a step as the planner model wrote it: a mapping
\* without or with prompt_to_llm, a string that decodes to a mapping, a
\* string that decodes to something else, a string that does not decode,
\* and a value that is neither a mapping nor a string.
RawArguments == {"dict", "dict_prompt", "str_dict", "str_value", "str_undecodable", "list"}
RawMissing == {"none", "tool", "arguments", "reasoning"}

RawStep(tool, arguments, missing) ==
    [tool |-> tool, arguments |-> arguments, missing |-> missing]

\* The planner reads the keys and the arguments of a step and nothing of
\* its tool name, so the shapes are varied on the steps of one tool.
RawSteps ==
    {RawStep("llm_response_generation", a, "none") : a \in {"dict_prompt", "str_value"}}
        \cup {RawStep("web_search", a, "none") :
                    a \in {"dict", "str_dict", "str_undecodable", "list"}}
        \cup {RawStep("web_search", "dict", m) : m \in RawMissing \ {"none"}}
        \cup {RawStep("nonexistent_tool", "dict", "none")}

\* The steps of a plan that arrives as a mapping, which no line validates.
MappingSteps ==
    {RawStep("llm_response_generation", "dict_prompt", "none"),
     RawStep("web_search", "dict", "none"),
     RawStep("web_search", "dict", "tool"),
     RawStep("web_search", "dict", "arguments")}

RawOutput(form, content, steps) == [form |-> form, content |-> content, steps |-> steps]

\* What generate_plan gets from its model: nothing (no model, or invoke
\* raises), text with or without a code fence, content that is already a
\* mapping, and content that is neither.  Text decodes or not; a decoded
\* value is a mapping or not, with a "plan" that is a list or not.
RawOutputs ==
    {RawOutput(f, "none", <<>>) : f \in {"no_llm", "invoke_raises", "other"}}
        \cup {RawOutput(f, c, <<>>) :
                    f \in {"text", "fenced"},
                    c \in {"undecodable", "not_mapping", "no_plan", "plan_not_list"}}
        \cup {RawOutput("mapping", c, <<>>) : c \in {"no_plan", "plan_not_list"}}
        \cup {RawOutput(f, "plan_list", p) :
                    f \in {"text", "fenced"}, p \in SeqsUpTo(RawSteps, MaxRawSteps)}
        \cup {RawOutput("mapping", "plan_list", p) :
                    p \in SeqsUpTo(MappingSteps, MaxRawSteps)}

\* Lines 132-136: the fence is removed from fenced text before decoding.
StripFence(form) == IF form = "fenced" THEN "text" ELSE form

\* Lines 149-160: a step passes if it has the three keys and its arguments
\* are a mapping or a string that json.loads accepts.
ValidStep(step) ==
    /\ step.missing = "none"
    /\ step.arguments \in {"dict", "dict_prompt", "str_dict", "str_value"}

\* Line 156: step["arguments"] = json.loads(step["arguments"]), whatever
\* the decoded value is.
ValidatedStep(step, k) ==
    [tool |-> step.tool,
     arguments |-> CASE step.arguments = "str_dict" -> "dict"
                     [] step.arguments = "str_value" -> "str"
                     [] OTHER -> step.arguments,
     step |-> k]

\* Lines 139-140: a mapping with "plan" is returned as it came.
UnvalidatedStep(step, k) ==
    [tool |-> IF step.missing = "tool" THEN "None" ELSE step.tool,
     arguments |-> CASE step.missing = "arguments" -> "absent"
                     [] step.arguments \in {"dict", "dict_prompt"} -> step.arguments
                     [] OTHER -> "str",
     step |-> k]

\* Lines 54-62 and 182-190.
SingleStepPlan(prompt) ==
    [shape |-> "list",
     plan |-> <<[tool |-> "llm_response_generation", arguments |-> prompt, step |-> 1]>>]

UnavailablePlan == SingleStepPlan("unavailable_prompt")
FallbackPlan == SingleStepPlan("fallback_prompt")

\* generate_plan that returns None where the code returns the fallback plan.
GeneratePlan_NoFallback(raw) ==
    LET form == StripFence(raw.form)
    IN  CASE form = "no_llm" -> UnavailablePlan
          [] form = "mapping" /\ raw.content = "plan_not_list" ->
                [shape |-> "notlist", plan |-> <<>>]
          [] form = "mapping" /\ raw.content = "plan_list" ->
                [shape |-> "list",
                 plan |-> [k \in 1..Len(raw.steps) |-> UnvalidatedStep(raw.steps[k], k)]]
          [] form = "text" /\ raw.content = "plan_list"
                           /\ \A k \in 1..Len(raw.steps) : ValidStep(raw.steps[k]) ->
                [shape |-> "list",
                 plan |-> [k \in 1..Len(raw.steps) |-> ValidatedStep(raw.steps[k], k)]]
          [] OTHER -> [shape |-> "none", plan |-> <<>>]

\* generate_plan that leaves an invalid step out and keeps the others.
GeneratePlan_SkipsInvalid(raw) ==
    LET form == StripFence(raw.form)
        kept == SelectSeq(raw.steps, ValidStep)
    IN  CASE form = "no_llm" -> UnavailablePlan
          [] form = "mapping" /\ raw.content = "plan_not_list" ->
                [shape |-> "notlist", plan |-> <<>>]
          [] form = "mapping" /\ raw.content = "plan_list" ->
                [shape |-> "list",
                 plan |-> [k \in 1..Len(raw.steps) |-> UnvalidatedStep(raw.steps[k], k)]]
          [] form = "text" /\ raw.content = "plan_list" ->
                [shape |-> "list",
                 plan |-> [k \in 1..Len(kept) |-> ValidatedStep(kept[k], k)]]
          [] OTHER -> FallbackPlan

\* Planner.generate_plan, lines 46-190, as a function of what its model
\* returned.
GeneratePlan(raw) ==
    LET form == StripFence(raw.form)
    IN  CASE form = "no_llm" -> UnavailablePlan
          [] form = "mapping" /\ raw.content = "plan_not_list" ->
                [shape |-> "notlist", plan |-> <<>>]
          [] form = "mapping" /\ raw.content = "plan_list" ->
                [shape |-> "list",
                 plan |-> [k \in 1..Len(raw.steps) |-> UnvalidatedStep(raw.steps[k], k)]]
          [] form = "text" /\ raw.content = "plan_list"
                           /\ \A k \in 1..Len(raw.steps) : ValidStep(raw.steps[k]) ->
                [shape |-> "list",
                 plan |-> [k \in 1..Len(raw.steps) |-> ValidatedStep(raw.steps[k], k)]]
          [] OTHER -> FallbackPlan

\* ------------------------------------------------------ the chat handlers
\* "chat_stream" is /chat of agent/app.py, whose history is the global
\* conversation_history; "chat_f" is /api/chat of app.py, whose history is
\* chat_data['messages'].
Handlers == {"chat_stream", "chat_f"}

UserTurn(k) == [role |-> "user", content |-> <<[kind |-> "message", k |-> k]>>]
AssistantTurn(fragments) == [role |-> "assistant", content |-> fragments]
CriticalErrorFragment == Frag("critical_server_error", 0)

\* A request has arrived at a handler whose Planner and Executor were
\* constructed at import; nothing of the turn has run.  The two share the
\* model instance of llm_services, so a planner that has a model implies an
\* executor that has one.
InitChat ==
    /\ NothingAside
    /\ llm \in BOOLEAN
    /\ handler \in Handlers
    /\ conversation_history \in Histories
    /\ plan_json = [shape |-> "none", plan |-> <<>>]
    /\ planner_output = NoRaw
    /\ hpc = "received"
    /\ pc = "idle"
    /\ trailer = <<>>
    /\ run = 1
    /\ first = NoFirst
    /\ i = 1
    /\ tool_outputs_for_synthesis = <<>>
    /\ context = <<>>
    /\ final_response_streamed = FALSE
    /\ gen = NoGen
    /\ yielded = <<>>
    /\ executed = <<>>
    /\ step_results = <<>>
    /\ tool_calls = <<>>
    /\ model_calls = <<>>
    /\ exc = NoException

\* agent/app.py lines 38-68 and app.py lines 113-118: the user message is
\* appended, the plan is generated, and the response generator is made over
\* execute_plan(plan, history).
ChatRequest ==
    /\ hpc = "received"
    /\ \E raw \in RawOutputs :
            /\ (~llm) => raw.form = "no_llm"
            /\ planner_output' = raw
            /\ plan_json' = GeneratePlan(raw)
    /\ conversation_history' =
            Append(conversation_history, UserTurn(Len(conversation_history) + 1))
    /\ hpc' = "streaming"
    /\ pc' = "start"
    /\ UNCHANGED <<aside, llm, run, first, handler, trailer, locals, gen, yielded,
                   observed, exc>>

\* agent/app.py lines 76-81, for the fixed fragments of the executor; the
\* text of a model fragment is not looked into.
IsErrorMessage(fragments) ==
    \/ fragments[1].kind \in {"main_model_unavailable", "synthesis_unavailable",
                              "stream_error"}
    \/ \E n \in 1..Len(fragments) : fragments[n].kind = "planning_issue"

\* ChatStreamDone that stores every response that is not blank.
ChatStreamDone_StoresErrors ==
    /\ handler = "chat_stream"
    /\ hpc = "streaming"
    /\ pc = "done"
    /\ conversation_history' =
            IF yielded # <<>>
            THEN Append(conversation_history, AssistantTurn(yielded))
            ELSE conversation_history
    /\ hpc' = "finished"
    /\ UNCHANGED <<aside, llm, plan_json, run, first, handler, trailer, planner_output,
                   locals, pc, gen, yielded, observed, exc>>

\* agent/app.py lines 72-84: the stream is exhausted; the response is stored
\* if it is not blank and is no error message.
ChatStreamDone ==
    /\ handler = "chat_stream"
    /\ hpc = "streaming"
    /\ pc = "done"
    /\ conversation_history' =
            IF yielded # <<>> /\ ~IsErrorMessage(yielded)
            THEN Append(conversation_history, AssistantTurn(yielded))
            ELSE conversation_history
    /\ hpc' = "finished"
    /\ UNCHANGED <<aside, llm, plan_json, run, first, handler, trailer, planner_output,
                   locals, pc, gen, yielded, observed, exc>>

\* agent/app.py lines 92-98: an exception of execute_plan is caught and one
\* fragment is yielded in its place.
ChatStreamCatch ==
    /\ handler = "chat_stream"
    /\ hpc = "streaming"
    /\ pc = "raised"
    /\ trailer' = Append(trailer, CriticalErrorFragment)
    /\ hpc' = "finished"
    /\ UNCHANGED <<aside, llm, plan_json, conversation_history, run, first, handler,
                   planner_output, locals, pc, gen, yielded, observed, exc>>

\* ChatFDone that stores the assistant turn twice.
ChatFDone_Twice ==
    /\ handler = "chat_f"
    /\ hpc = "streaming"
    /\ pc = "done"
    /\ conversation_history' =
            Append(Append(conversation_history, AssistantTurn(yielded)),
                   AssistantTurn(yielded))
    /\ hpc' = "finished"
    /\ UNCHANGED <<aside, llm, plan_json, run, first, handler, trailer, planner_output,
                   locals, pc, gen, yielded, observed, exc>>

\* app.py lines 123-124: the stream is exhausted; the buffer is stored as the
\* assistant turn.
ChatFDone ==
    /\ handler = "chat_f"
    /\ hpc = "streaming"
    /\ pc = "done"
    /\ conversation_history' = Append(conversation_history, AssistantTurn(yielded))
    /\ hpc' = "finished"
    /\ UNCHANGED <<aside, llm, plan_json, run, first, handler, trailer, planner_output,
                   locals, pc, gen, yielded, observed, exc>>

\* app.py lines 116-124 have no try: an exception of execute_plan leaves f
\* and reaches the server that iterates the response.
ChatFCrash ==
    /\ handler = "chat_f"
    /\ hpc = "streaming"
    /\ pc = "raised"
    /\ hpc' = "crashed"
    /\ UNCHANGED <<aside, llm, plan_json, conversation_history, run, first, handler,
                   trailer, planner_output, locals, pc, gen, yielded, observed, exc>>

NextChat ==
    \/ ChatRequest
    \/ Start
    \/ ToolStep
    \/ ResponseStep
    \/ AfterLoop
    \/ StreamChunk
    \/ StreamError
    \/ StreamEnd
    \/ ChatStreamDone
    \/ ChatStreamCatch
    \/ ChatFDone
    \/ ChatFCrash

SpecChat == InitChat /\ [][NextChat]_vars

\* ------------------------------------------- several turns of one /chat
MaxTurns == 2

\* Replies of the planner model that lead to each way a turn can end: the
\* fallback plans, a tool step, an unknown tool, a direct response, an
\* empty plan, and a mapping whose "plan" is no list.
TurnOutputs ==
    {RawOutput("no_llm", "none", <<>>),
     RawOutput("text", "undecodable", <<>>),
     RawOutput("text", "plan_list", <<>>),
     RawOutput("text", "plan_list", <<RawStep("web_search", "dict", "none")>>),
     RawOutput("text", "plan_list", <<RawStep("nonexistent_tool", "dict", "none")>>),
     RawOutput("text", "plan_list",
               <<RawStep("llm_response_generation", "dict_prompt", "none")>>),
     RawOutput("mapping", "plan_not_list", <<>>)}

\* The first request to /chat of agent/app.py since the server started.
InitTurns ==
    /\ InitChat
    /\ handler = "chat_stream"

\* agent/app.py lines 28-100 for a later request: the user message is
\* appended to the same global conversation_history, a plan is generated
\* and a new generator is made over a new call of execute_plan.
ChatNextRequest ==
    /\ handler = "chat_stream"
    /\ hpc = "finished"
    /\ run < MaxTurns
    /\ run' = run + 1
    /\ \E raw \in TurnOutputs :
            /\ (~llm) => raw.form = "no_llm"
            /\ planner_output' = raw
            /\ plan_json' = GeneratePlan(raw)
    /\ conversation_history' =
            Append(conversation_history, UserTurn(Len(conversation_history) + 1))
    /\ hpc' = "streaming"
    /\ pc' = "start"
    /\ trailer' = <<>>
    /\ i' = 1
    /\ tool_outputs_for_synthesis' = <<>>
    /\ context' = <<>>
    /\ final_response_streamed' = FALSE
    /\ gen' = NoGen
    /\ yielded' = <<>>
    /\ executed' = <<>>
    /\ step_results' = <<>>
    /\ tool_calls' = <<>>
    /\ model_calls' = <<>>
    /\ exc' = NoException
    /\ UNCHANGED <<aside, llm, first, handler>>

NextTurns ==
    \/ ChatRequest /\ planner_output' \in TurnOutputs
    \/ ChatNextRequest
    \/ Start
    \/ ToolStep
    \/ ResponseStep
    \/ AfterLoop
    \/ StreamChunk
    \/ StreamError
    \/ StreamEnd
    \/ ChatStreamDone
    \/ ChatStreamCatch

SpecTurns == InitTurns /\ [][NextTurns]_vars

\* ------------------------------------- overlapping requests to /api/chat
MaxRequests == 2
Requests == 1..MaxRequests

\* The user message of request r, and a request that has not loaded yet.
RequestTurn(r) == [role |-> "user", content |-> <<[kind |-> "request", k |-> r]>>]
NewSession == [at |-> "new", messages |-> <<>>, buffer |-> <<>>]

\* The chat's file exists with some saved turns; the requests have arrived
\* and the server handles each in a thread of its own.
InitFile ==
    /\ ExecutorIdle
    /\ llm \in BOOLEAN
    /\ conversation_history = <<>>
    /\ call = NoCall
    /\ chat_file \in Histories
    /\ sessions = [r \in Requests |-> NewSession]

others == <<llm, plan_json, conversation_history, run, first, handler, hpc, trailer,
            planner_output, call, locals, pc, gen, yielded, observed, exc>>

\* app.py line 108 and lines 34-39: chat_data = load_chat(chat_id).
LoadChat(r) ==
    /\ sessions[r].at = "new"
    /\ sessions' = [sessions EXCEPT ![r] = [at |-> "loaded", messages |-> chat_file,
                                            buffer |-> <<>>]]
    /\ UNCHANGED <<chat_file, others>>

\* app.py lines 113-115 and 41-45: the user message is appended to this
\* request's chat_data, which is written to the file; the plan is made.
SaveUserMessage(r) ==
    /\ sessions[r].at = "loaded"
    /\ LET messages == Append(sessions[r].messages, RequestTurn(r))
       IN  /\ sessions' = [sessions EXCEPT ![r].at = "streaming", ![r].messages = messages]
           /\ chat_file' = messages
    /\ UNCHANGED others

\* app.py lines 118-122: one chunk of execute_plan is added to the buffer and
\* sent.
StreamToClient(r) ==
    /\ sessions[r].at = "streaming"
    /\ Len(sessions[r].buffer) < MaxFrags
    /\ sessions' = [sessions EXCEPT
                        ![r].buffer = Append(@, ModelFragment(Len(@) + 1))]
    /\ UNCHANGED <<chat_file, others>>

\* app.py lines 123-124: execute_plan is exhausted; the assistant message is
\* appended to this request's chat_data, which is written to the file.
SaveAssistantMessage(r) ==
    /\ sessions[r].at = "streaming"
    /\ LET messages == Append(sessions[r].messages, AssistantTurn(sessions[r].buffer))
       IN  /\ sessions' = [sessions EXCEPT ![r].at = "done", ![r].messages = messages]
           /\ chat_file' = messages
    /\ UNCHANGED others

NextFile ==
    \E r \in Requests :
        \/ LoadChat(r)
        \/ SaveUserMessage(r)
        \/ StreamToClient(r)
        \/ SaveAssistantMessage(r)

SpecFile == InitFile /\ [][NextFile]_vars

\* ---------------------------------------------------- a second, equal call
Terminated == pc \in {"done", "raised"}

\* Restart that keeps the collected tool outputs and the context, as if they
\* were attributes of the Executor and not locals of the call.
Restart_KeepsOutputs ==
    /\ run = 1
    /\ Terminated
    /\ run' = 2
    /\ first' = [ended |-> pc, yielded |-> yielded, step_results |-> step_results,
                 gen |-> gen]
    /\ pc' = "start"
    /\ i' = 1
    /\ final_response_streamed' = FALSE
    /\ gen' = NoGen
    /\ yielded' = <<>>
    /\ executed' = <<>>
    /\ step_results' = <<>>
    /\ tool_calls' = <<>>
    /\ model_calls' = <<>>
    /\ exc' = NoException
    /\ UNCHANGED <<aside, llm, plan_json, conversation_history, handler, hpc, trailer,
                   planner_output, tool_outputs_for_synthesis, context>>

\* execute_plan is called again on the same Executor with the same
\* arguments once the first call has ended: a new generator, whose locals
\* are set afresh by lines 195-198; the Executor keeps llm and tools only.
Restart ==
    /\ run = 1
    /\ Terminated
    /\ run' = 2
    /\ first' = [ended |-> pc, yielded |-> yielded, step_results |-> step_results,
                 gen |-> gen]
    /\ pc' = "start"
    /\ i' = 1
    /\ tool_outputs_for_synthesis' = <<>>
    /\ context' = <<>>
    /\ final_response_streamed' = FALSE
    /\ gen' = NoGen
    /\ yielded' = <<>>
    /\ executed' = <<>>
    /\ step_results' = <<>>
    /\ tool_calls' = <<>>
    /\ model_calls' = <<>>
    /\ exc' = NoException
    /\ UNCHANGED <<aside, llm, plan_json, conversation_history, handler, hpc, trailer,
                   planner_output>>

\* Deterministic collaborators: in the second call a tool that is given the
\* input it was given in the first call does what it did then, and the
\* model, given the messages of the first call, streams what it streamed.
DeterministicTool ==
    (run = 2 /\ i <= Len(first.step_results)
             /\ first.step_results[i].step_plan = Plan[i]) =>
        step_results'[Len(step_results')].outcome = first.step_results[i].outcome

SameMessages == run = 2 /\ gen.args = first.gen.args

DeterministicChunk == SameMessages => gen.sent < first.gen.sent
DeterministicError == SameMessages => (gen.sent = first.gen.sent /\ first.gen.failed)
DeterministicEnd ==
    (SameMessages /\ gen.state # "failed") =>
        (gen.sent = first.gen.sent /\ ~first.gen.failed)

\* The plans whose step ordinals count up and whose registered tool is
\* web_search.
InitReplay ==
    /\ Init
    /\ \A k \in 1..Len(plan_json.plan) :
            /\ plan_json.plan[k].step = k
            /\ plan_json.plan[k].tool # "news_search"

NextReplay ==
    \/ Start
    \/ ToolStep /\ DeterministicTool
    \/ ResponseStep
    \/ AfterLoop
    \/ StreamChunk /\ DeterministicChunk
    \/ StreamError /\ DeterministicError
    \/ StreamEnd /\ DeterministicEnd
    \/ Restart

SpecReplay == InitReplay /\ [][NextReplay]_vars

\* ================================================================ claims
WellFormed == plan_json.shape = "list"

\* Index of the first llm_response_generation step, or one past the end.
FirstResponse ==
    LET idx == {k \in 1..Len(Plan) : Plan[k].tool = "llm_response_generation"}
    IN  IF idx = {} THEN Len(Plan) + 1 ELSE CHOOSE k \in idx : \A m \in idx : k <= m

WasExecuted(j) == \E n \in 1..Len(executed) : executed[n] = j
WasInvoked(j) == \E n \in 1..Len(tool_calls) : tool_calls[n] = j

\* The output of a fragment generator that produced n chunks: the chunks in
\* order, then the error fragment if the model stream raised.
GeneratorOutput(g) ==
    [k \in 1..g.sent |-> ModelFragment(k)]
        \o (IF g.failed THEN <<StreamErrorFragment>> ELSE <<>>)

\* C1: once execute_plan has ended, every step that follows a tool step
\* recorded with status=error and precedes the first llm_response_generation
\* step has been passed to execute_step.
C1_ErrorsNonContagious ==
    (llm /\ WellFormed /\ Terminated) =>
        \A k \in 1..Len(tool_outputs_for_synthesis) :
            tool_outputs_for_synthesis[k].status = "error" =>
                \A j \in (k + 1)..(FirstResponse - 1) : WasExecuted(j)

\* C2: a plan whose only step names an unregistered tool ends with that
\* step recorded as an error naming the tool, no tool invoked, exactly one
\* synthesis model call made, and the stream finished without an exception.
C2_UnknownToolStillSynthesised ==
    (llm /\ WellFormed /\ Terminated /\ Len(Plan) = 1
         /\ Plan[1].tool = "nonexistent_tool") =>
        /\ Len(step_results) = 1
        /\ step_results[1].result.kind = "record"
        /\ step_results[1].result.rec.status = "error"
        /\ step_results[1].result.rec.tool_name = "nonexistent_tool"
        /\ step_results[1].result.rec.output.error = "not_found"
        /\ tool_calls = <<>>
        /\ pc = "done"
        /\ Len(model_calls) = 1
        /\ model_calls[1].prompt.kind = "synthesis"
        /\ yielded = GeneratorOutput(gen)

\* C3: a plan of two tool steps and no llm_response_generation step, both
\* of whose results have been recorded (as a success or as a failure of any
\* kind), ends with exactly one synthesis model call, whose context summary
\* has one entry for each of the two results.
C3_TwoToolStepsOneSynthesis ==
    (llm /\ WellFormed /\ Terminated /\ Len(Plan) = 2 /\ FirstResponse = 3
         /\ Len(tool_outputs_for_synthesis) = 2) =>
        /\ Len(model_calls) = 1
        /\ model_calls[1].prompt.kind = "synthesis"
        /\ LET summary == model_calls[1].context_summary
               entries == [k \in 1..Len(summary.successful) |->
                              summary.successful[k].tool_name]
                          \o [k \in 1..Len(summary.failed) |-> summary.failed[k].tool_name]
           IN  /\ Len(entries) = 2
               /\ \A j \in 1..2 : \E k \in 1..2 : entries[k] = Plan[j].tool

\* C4: once an llm_response_generation step has been passed to execute_step
\* it is the last step passed, no tool of a later step is invoked, no
\* synthesis call is made and the loop is not re-entered; when execute_plan
\* has finished, the caller has received that step's fragments and nothing
\* else.
C4_ResponseStepTerminal ==
    \A n \in 1..Len(executed) :
        Plan[executed[n]].tool = "llm_response_generation" =>
            /\ n = Len(executed)
            /\ executed[n] = FirstResponse
            /\ \A j \in 1..Len(Plan) : j > executed[n] => ~WasInvoked(j)
            /\ \A c \in 1..Len(model_calls) : model_calls[c].prompt.kind # "synthesis"
            /\ Len(model_calls) <= 1
            /\ pc \in {"stream_step", "done", "raised"}
            /\ pc = "done" => yielded = GeneratorOutput(gen) /\ gen.state = "finished"

C4_Witness ==
    /\ pc = "done"
    /\ Len(Plan) = 3
    /\ FirstResponse = 2
    /\ WasExecuted(2)
    /\ WasInvoked(1)
    /\ Len(yielded) = MaxFrags

\* C5: whatever exception selected_tool.run raises, execute_step returns a
\* result record with status=error.
C5_ToolExceptionsContained ==
    \A n \in 1..Len(step_results) :
        step_results[n].outcome \in {"raise_ValidationError", "raise_JSONDecodeError",
                                     "raise_Exception"} =>
            /\ step_results[n].result.kind = "record"
            /\ step_results[n].result.rec.status = "error"

\* C6: for every step (any tool name, any shape of arguments) and every
\* conversation history, the part of execute_step that precedes the tool
\* invocation (lines 63-96) returns a result record or a fragment generator;
\* it never raises.
C6_ExecuteStepNeverRaises ==
    \A n \in 1..Len(step_results) :
        ~step_results[n].result.invoked =>
            step_results[n].result.kind \in {"record", "generator"}

\* C7: with the model client available, a plan_json that is None, empty,
\* without a plan key or with a plan that is not a list makes execute_plan
\* yield the one planning-issue fragment and end; no step is executed, no
\* tool is invoked and no model call is made.
C7_MalformedPlanOneFragment ==
    (llm /\ ~WellFormed) =>
        /\ pc \in {"start", "done"}
        /\ yielded = IF pc = "done" THEN <<PlanningIssueFragment>> ELSE <<>>
        /\ executed = <<>>
        /\ tool_calls = <<>>
        /\ model_calls = <<>>
        /\ exc = NoException

C7_Witness ==
    /\ llm
    /\ plan_json.shape = "nokey"
    /\ pc = "done"
    /\ Len(yielded) = 1

\* C8: with the model client unavailable, execute_plan yields the one
\* model-unavailable fragment and ends, for every plan_json; no step is
\* executed, no tool is invoked, no model call is made, and a malformed plan
\* does not change the fragment.
C8_ModelUnavailableOneFragment ==
    ~llm =>
        /\ pc \in {"start", "done"}
        /\ yielded = IF pc = "done" THEN <<LLMUnavailableFragment>> ELSE <<>>
        /\ executed = <<>>
        /\ tool_calls = <<>>
        /\ model_calls = <<>>
        /\ exc = NoException

C8_Witness ==
    /\ ~llm
    /\ ~WellFormed
    /\ pc = "done"
    /\ yielded = <<LLMUnavailableFragment>>

\* C9: for the plan {"plan": []} execute_plan yields the one empty-plan
\* fragment and completes, with no tool call and no model call.
C9_EmptyPlanClarification ==
    (llm /\ WellFormed /\ Plan = <<>>) =>
        /\ pc \in {"start", "loop", "done"}
        /\ yielded = IF pc = "done" THEN <<EmptyPlanFragment>> ELSE <<>>
        /\ executed = <<>>
        /\ tool_calls = <<>>
        /\ model_calls = <<>>
        /\ exc = NoException

C9_Witness ==
    /\ llm
    /\ WellFormed
    /\ Plan = <<>>
    /\ pc = "done"
    /\ yielded = <<EmptyPlanFragment>>

\* C10: a plan whose only step is llm_response_generation with an explicit
\* prompt_to_llm ends, for every conversation history, without an exception,
\* with no tool invoked and with exactly the fragments of the model's
\* stream yielded.
C10_DirectResponseOnly ==
    (llm /\ WellFormed /\ Terminated /\ Len(Plan) = 1
         /\ Plan[1].tool = "llm_response_generation"
         /\ Plan[1].arguments = "dict_prompt") =>
        /\ pc = "done"
        /\ tool_calls = <<>>
        /\ Len(model_calls) = 1
        /\ yielded = GeneratorOutput(gen)

\* C11: the n-th call of execute_step receives the n-th element of
\* plan_json["plan"], whatever the steps' "step" ordinals are, and it is
\* made only when the results of all earlier steps have been recorded.
C11_StepsInListOrder ==
    \A n \in 1..Len(step_results) :
        /\ executed[n] = n
        /\ step_results[n].step = n
        /\ step_results[n].step_plan = plan_json.plan[n]
        /\ n > 1 =>
              /\ Len(tool_outputs_for_synthesis) >= n - 1
              /\ tool_outputs_for_synthesis[n - 1] = step_results[n - 1].result.rec

C11_Witness ==
    /\ Len(step_results) = 3
    /\ plan_json.plan[1].step = 3
    /\ plan_json.plan[3].step = 1
    /\ pc = "stream_synth"

\* C12: once execute_plan has ended, tool.run has been invoked exactly once
\* for each registered-tool step that precedes the first
\* llm_response_generation step, and for no other step.
C12_OneInvocationPerToolStep ==
    (llm /\ WellFormed /\ Terminated) =>
        /\ \A j \in 1..Len(Plan) :
              WasInvoked(j) <=> (j < FirstResponse /\ Plan[j].tool \in Registry)
        /\ \A a, b \in 1..Len(tool_calls) : a # b => tool_calls[a] # tool_calls[b]

\* C13: the chunks of the model stream reach the caller in the order the
\* model emitted them, each exactly once, all from the one model call of the
\* run, and no other fragment comes before or between them.
C13_FragmentsInModelOrder ==
    /\ SelectSeq(yielded, LAMBDA f : f.kind = "model")
          = [k \in 1..gen.sent |-> ModelFragment(k)]
    /\ \A a, b \in 1..Len(yielded) :
          (a < b /\ yielded[b].kind = "model") => yielded[a].kind = "model"
    /\ gen.sent > 0 => Len(model_calls) = 1 /\ model_calls[1] = gen.args

C13_Witness ==
    /\ pc = "done"
    /\ gen.sent = MaxFrags
    /\ ~gen.failed
    /\ Len(yielded) = MaxFrags
    /\ model_calls[1].prompt.kind = "synthesis"

\* C14: a second call of execute_plan with the same plan and history and
\* with deterministic collaborators ends as the first call ended, having
\* yielded the same fragments and executed the same steps with the same
\* results.
C14_ReplayYieldsSameOutput ==
    (run = 2 /\ Terminated) =>
        /\ pc = first.ended
        /\ yielded = first.yielded
        /\ step_results = first.step_results

C14_Witness ==
    /\ run = 2
    /\ pc = "done"
    /\ Len(tool_outputs_for_synthesis) = 2
    /\ Len(yielded) = MaxFrags + 1
    /\ gen.failed

\* C15: with a finite plan, tools that return and finite model streams,
\* execute_plan eventually finishes as Completed or Aborted, that is, its
\* generator is exhausted and no exception has left it.
ToolsReturn ==
    \A n \in 1..Len(step_results) :
        step_results[n].outcome \notin
            {"raise_ValidationError", "raise_JSONDecodeError", "raise_Exception"}

C15_EventuallyFinishes == <>(pc = "done" \/ ~ToolsReturn)

\* C16: when the model stream raises after k fragments, the stream of the
\* call is those k fragments, in order, then one error fragment, and no
\* exception leaves the generator.
C16_StreamErrorOneTrailingFragment ==
    gen.failed =>
        /\ yielded = [k \in 1..gen.sent |-> ModelFragment(k)] \o <<StreamErrorFragment>>
        /\ gen.state \in {"failed", "finished"}
        /\ pc # "raised"
        /\ exc = NoException

C16_Witness ==
    /\ gen.failed
    /\ gen.sent = MaxFrags
    /\ gen.state = "finished"
    /\ pc = "done"
    /\ Len(yielded) = MaxFrags + 1

\* C17: an exception that leaves execute_plan during a chat turn is caught
\* by the handler's stream generator, which yields one apologetic fragment
\* and ends; this for both chat handlers.
C17_EscapedExceptionCaught ==
    (pc = "raised" /\ hpc # "streaming") =>
        /\ hpc = "finished"
        /\ trailer = <<CriticalErrorFragment>>

\* C18: while execute_plan runs the history is not written; the handler of
\* /api/chat writes it once, when the stream is exhausted, by appending one
\* assistant turn whose content is the fragments in the order yielded, and
\* not at all after that.
C18_HistoryFrame ==
    [][/\ (hpc = "streaming" /\ hpc' = "streaming") =>
              conversation_history' = conversation_history
       /\ (handler = "chat_f" /\ hpc = "streaming" /\ hpc' # "streaming") =>
              IF pc = "done"
              THEN conversation_history' =
                        Append(conversation_history, AssistantTurn(yielded))
              ELSE conversation_history' = conversation_history
       /\ hpc \in {"finished", "crashed"} =>
              conversation_history' = conversation_history]_vars

C18_Witness ==
    /\ handler = "chat_f"
    /\ hpc = "finished"
    /\ Len(tool_calls) = 2
    /\ Len(yielded) = MaxFrags
    /\ conversation_history[Len(conversation_history)] = AssistantTurn(yielded)
    /\ conversation_history[Len(conversation_history) - 1].role = "user"

\* The planner model answered with text that is no JSON, or that decodes to
\* something without a "plan" list.
UndecodableText ==
    /\ planner_output.form \in {"text", "fenced"}
    /\ planner_output.content \in {"undecodable", "not_mapping", "no_plan", "plan_not_list"}

TextPlan ==
    /\ planner_output.form \in {"text", "fenced"}
    /\ planner_output.content = "plan_list"

SomeStepInvalid ==
    \E k \in 1..Len(planner_output.steps) : ~ValidStep(planner_output.steps[k])

NoResponseStepPlanned ==
    \A k \in 1..Len(planner_output.steps) :
        planner_output.steps[k].tool # "llm_response_generation"

\* C20, as stated: a step that fails validation is recorded as an error
\* result and the other steps of the plan are executed.
C20_InvalidStepFailSoft ==
    (TextPlan /\ SomeStepInvalid /\ NoResponseStepPlanned /\ hpc \in {"finished", "crashed"}) =>
        /\ Len(step_results) = Len(planner_output.steps)
        /\ \A k \in 1..Len(step_results) :
              /\ step_results[k].step_plan.tool = planner_output.steps[k].tool
              /\ ~ValidStep(planner_output.steps[k]) =>
                    step_results[k].result.rec.status = "error"

\* C20, amended: validation is all or nothing for a plan that arrives as
\* text: when one step fails it, generate_plan returns the fallback plan in
\* place of the whole plan, and no step of the generated plan is executed
\* and no tool is called.
C20_InvalidStepDiscardsPlan ==
    (TextPlan /\ SomeStepInvalid /\ hpc # "received") =>
        /\ plan_json = FallbackPlan
        /\ tool_calls = <<>>
        /\ \A n \in 1..Len(step_results) :
              step_results[n].step_plan = FallbackPlan.plan[1]

C20_Witness ==
    /\ TextPlan
    /\ Len(planner_output.steps) = 2
    /\ ValidStep(planner_output.steps[1])
    /\ planner_output.steps[1].tool = "web_search"
    /\ planner_output.steps[2].missing = "reasoning"
    /\ hpc = "finished"
    /\ yielded # <<>>

\* C21: whatever the planner model returned, generate_plan returns a plan
\* whose "plan" is a list of steps that each have a tool and whose arguments
\* are a mapping; arguments that arrived as a string are accepted only if
\* they decode to a mapping.
C21_ReturnedPlanWellFormed ==
    hpc # "received" =>
        /\ plan_json.shape = "list"
        /\ \A k \in 1..Len(plan_json.plan) :
              /\ plan_json.plan[k].tool # "None"
              /\ plan_json.plan[k].arguments \in {"dict", "dict_prompt"} \cup PlannerPrompts

\* C22: the plan list of a plan that generate_plan returned is not empty.
C22_ReturnedPlanNonEmpty ==
    (hpc # "received" /\ plan_json.shape = "list") => plan_json.plan # <<>>

\* C23: when every step of a plan was a tool step that returned a record,
\* one synthesis call is made, and its summary lists each success with its
\* tool name and output, and each failure with its tool name and error
\* text, each group in plan order.
C23_SummaryPartitionsResults ==
    (llm /\ WellFormed /\ Terminated /\ Plan # <<>>
         /\ Len(tool_outputs_for_synthesis) = Len(Plan)) =>
        /\ Len(model_calls) = 1
        /\ model_calls[1].prompt.kind = "synthesis"
        /\ LET outs == tool_outputs_for_synthesis
               ok == SelectSeq(outs, LAMBDA out : out.status = "success")
               bad == SelectSeq(outs, LAMBDA out : out.status = "error")
               summary == model_calls[1].context_summary
           IN  /\ Len(ok) + Len(bad) = Len(outs)
               /\ Len(summary.successful) = Len(ok)
               /\ Len(summary.failed) = Len(bad)
               /\ \A k \in 1..Len(ok) :
                     /\ summary.successful[k].tool_name = ok[k].tool_name
                     /\ summary.successful[k].output = ok[k].output
               /\ \A k \in 1..Len(bad) :
                     /\ summary.failed[k].tool_name = bad[k].tool_name
                     /\ summary.failed[k].error_detail = bad[k].output.error

\* C24: the context given to execute_step with the n-th step is the results
\* of the steps before it, in order; a direct-response step with
\* prompt_to_llm gets a generator over that prompt, and one without it,
\* given a history with a last turn, a generator over the default prompt of
\* that turn's content and the context.
C24_ContextAndPrompt ==
    \A n \in 1..Len(step_results) :
        LET r == step_results[n]
            arguments == r.step_plan.arguments
        IN  r.step_plan.tool = "llm_response_generation" =>
                /\ arguments = "dict_prompt" =>
                      /\ r.result.kind = "generator"
                      /\ r.result.args.prompt.kind = "explicit"
                /\ (arguments \in {"absent", "dict"} /\ conversation_history # <<>>) =>
                      /\ r.result.kind = "generator"
                      /\ r.result.args.prompt.kind = "default"
                      /\ r.result.args.prompt.query =
                            conversation_history[Len(conversation_history)].content
                      /\ r.result.args.prompt.context =
                            [k \in 1..(n - 1) |-> step_results[k].result.rec]

C28_StatusFollowsErrorField ==
    (call.state = "returned" /\ call.step_plan.tool \in Registry
        /\ call.ret.kind \in {"mapping", "non_mapping"}) =>
        /\ call.result.kind = "record"
        /\ call.result.rec.status \in {"success", "error"}
        /\ call.ret.kind = "mapping" =>
              /\ call.result.rec.status = "error" <=> call.ret.error = "text"
              /\ call.result.rec.status = "success" <=>
                    call.ret.error \in {"absent", "null", "empty"}
        /\ call.ret.kind = "non_mapping" => call.result.rec.status = "error"

C28_Witness ==
    /\ call.state = "returned"
    /\ call.step_plan.tool = "web_search"
    /\ call.ret = Return("mapping", "empty", 0)
    /\ call.result.rec.status = "success"

\* C26: a run of execute_plan opens at most one model stream: the one of
\* the first direct-response step, or the one of the synthesis.
C26_AtMostOneModelCall ==
    /\ Len(model_calls) <= 1
    /\ Len(model_calls) = 1 =>
          IF FirstResponse <= Len(Plan)
          THEN model_calls[1].prompt.kind \in {"explicit", "default"}
          ELSE model_calls[1].prompt.kind = "synthesis"

C26_Witness ==
    /\ pc = "done"
    /\ Len(Plan) = 3
    /\ Plan[2].tool = "llm_response_generation"
    /\ Plan[3].tool = "llm_response_generation"
    /\ Len(tool_outputs_for_synthesis) = 1
    /\ Len(model_calls) = 1
    /\ Len(yielded) = 1

\* C30: the "I carried out the steps" fragment is never yielded and no
\* synthesis call gets the "No information was gathered" summary: when
\* the loop has ended on a plan with steps, a tool result has been recorded
\* and the flag final_response_streamed is still false.
C30_NoInformationUnreachable ==
    /\ \A n \in 1..Len(yielded) : yielded[n] # NoInformationFragment
    /\ \A n \in 1..Len(model_calls) : ~model_calls[n].context_summary.fallback
    /\ (WellFormed /\ pc = "loop" /\ i > Len(Plan) /\ Plan # <<>>) =>
          (tool_outputs_for_synthesis # <<>> /\ ~final_response_streamed)

C30_Witness ==
    /\ pc = "loop"
    /\ i > Len(Plan)
    /\ Len(Plan) = 2
    /\ tool_outputs_for_synthesis[1].status = "error"
    /\ tool_outputs_for_synthesis[2].status = "error"
    /\ ~final_response_streamed

\* C27: once every one of the overlapping /api/chat requests on a chat has
\* finished its stream, the chat's file holds what it held before, the user
\* message of each request and an assistant message for each request.
C27_NoMessageLost ==
    (\A r \in Requests : sessions[r].at = "done") =>
        LET saved == SelectSeq(chat_file, LAMBDA t : t.content # <<>>
                                                     /\ t.content[1].kind = "message")
            replies == SelectSeq(chat_file, LAMBDA t : t.role = "assistant"
                                                       /\ (t.content = <<>>
                                                           \/ t.content[1].kind = "model"))
        IN  /\ \A r \in Requests : \E n \in 1..Len(chat_file) : chat_file[n] = RequestTurn(r)
            /\ Len(replies) = MaxRequests
            /\ Len(chat_file) = Len(saved) + 2 * MaxRequests

====
